---------------------------- MODULE Spec2Model ----------------------------
(***************************************************************************)
(* GymTrack Pro app icon generator (scripts/generate_app_icon.py).         *)
(*                                                                         *)
(* Five specifications over one set of variables, one per part of the      *)
(* script:                                                                 *)
(*   SpecInterp    interpolate_color on bounded colours and ratios         *)
(*   SpecGradient  create_radial_gradient, pixel by pixel, on small sizes  *)
(*   SpecRRect     draw_rounded_rect on a small canvas                     *)
(*   SpecRender    generate_*_icon on the 1024x1024 canvas, followed for   *)
(*                 one pixel through every drawing step                    *)
(*   Spec          main(): makedirs, then generate and save each variant   *)
(*                 (FairSpec adds the fairness of a sequential run)        *)
(* A colour is a tuple <<r, g, b>>.  A ratio is a pair <<n, d>>, d > 0,    *)
(* standing for the Python float n/d.                                      *)
(***************************************************************************)
EXTENDS Integers, Sequences, FiniteSets

VARIABLES
    \* interpolate_color: arguments, return value, position
    color1, color2, ratio, icResult, icPc,
    \* create_radial_gradient: arguments, image buffer, loop position
    size, center_color, edge_color, pixels, gx, gy, gPc,
    \* draw_rounded_rect: canvas, arguments, position
    canvas, bbox, radius, fill, rrPc,
    \* generate_*_icon: variant, followed pixel, its colour, position, bar index
    variant, px, py, pixel, rPc, seg,
    \* main: position, output directory, files, console, image in memory,
    \* and the file system as it was when main started
    mPc, dirExists, files, out, image, files0

vars == << color1, color2, ratio, icResult, icPc,
           size, center_color, edge_color, pixels, gx, gy, gPc,
           canvas, bbox, radius, fill, rrPc,
           variant, px, py, pixel, rPc, seg,
           mPc, dirExists, files, out, image, files0 >>

interpVars == << color1, color2, ratio, icResult, icPc >>
gradVars   == << size, center_color, edge_color, pixels, gx, gy, gPc >>
rrectVars  == << canvas, bbox, radius, fill, rrPc >>
renderVars == << variant, px, py, pixel, rPc, seg >>
mainVars   == << mPc, dirExists, files, out, image, files0 >>

\* The variables of a part that a specification does not run.
InterpIdle == /\ color1 = <<0, 0, 0>> /\ color2 = <<0, 0, 0>>
              /\ ratio = <<0, 1>> /\ icResult = <<>> /\ icPc = "idle"
GradIdle   == /\ size = 0 /\ center_color = <<0, 0, 0>> /\ edge_color = <<0, 0, 0>>
              /\ pixels = <<>> /\ gx = 0 /\ gy = 0 /\ gPc = "idle"
RRectIdle  == /\ canvas = <<>> /\ bbox = <<0, 0, 0, 0>> /\ radius = 0
              /\ fill = <<0, 0, 0>> /\ rrPc = "idle"
RenderIdle == /\ variant = "none" /\ px = 0 /\ py = 0 /\ pixel = <<0, 0, 0>>
              /\ rPc = "idle" /\ seg = 0
MainIdle   == /\ mPc = <<"idle", 0>> /\ dirExists = FALSE /\ files = <<>>
              /\ out = <<>> /\ image = <<>> /\ files0 = <<>>

Min(a, b) == IF a <= b THEN a ELSE b
Max(a, b) == IF a >= b THEN a ELSE b
Abs(a) == IF a >= 0 THEN a ELSE -a

(***************************************************************************)
(* Constants of the script.                                                *)
(***************************************************************************)
SIZE == 1024
CENTER == SIZE \div 2

COLORS == [ background    |-> <<15, 23, 42>>,
            card          |-> <<30, 41, 59>>,
            primary       |-> <<99, 102, 241>>,
            primary_light |-> <<129, 140, 248>>,
            accent        |-> <<34, 211, 238>>,
            white         |-> <<248, 250, 252>> ]

dark_center == <<20, 30, 50>>
dark_edge   == <<10, 15, 30>>
tinted_center  == <<60, 60, 60>>
tinted_edge    == <<30, 30, 30>>
tinted_primary == <<180, 180, 180>>
tinted_accent  == <<220, 220, 220>>

\* Every colour the script names.
ScriptColors ==
    { COLORS.background, COLORS.card, COLORS.primary, COLORS.primary_light,
      COLORS.accent, COLORS.white, dark_center, dark_edge,
      tinted_center, tinted_edge, tinted_primary, tinted_accent }

(***************************************************************************)
(* interpolate_color                                                       *)
(***************************************************************************)
\* Python's int() on the float n/d: truncation toward zero.
int_floor(n, d) == n \div d

int(n, d) == IF n >= 0 THEN n \div d ELSE -((-n) \div d)

\* color1[i] + (color2[i] - color1[i]) * ratio, as the fraction
\* InterpNum / ratio[2].
InterpNum(c1, c2, r, i) == c1[i] * r[2] + (c2[i] - c1[i]) * r[1]

interpolate_color_sum(c1, c2, r) ==
    << int(c1[1] * r[2] + (c2[1] + c1[1]) * r[1], r[2]),
       int(c1[2] * r[2] + (c2[2] + c1[2]) * r[1], r[2]),
       int(c1[3] * r[2] + (c2[3] + c1[3]) * r[1], r[2]) >>

interpolate_color(c1, c2, r) ==
    << int(InterpNum(c1, c2, r, 1), r[2]),
       int(InterpNum(c1, c2, r, 2), r[2]),
       int(InterpNum(c1, c2, r, 3), r[2]) >>

\* Ratios n / 2^e: the floats for which the arithmetic of line 55 is exact,
\* from -2 to 3 so that both sides of [0, 1] are covered; and the ratios the
\* script itself passes (0.3, 0.2, i/19), on which the float result equals
\* the exact one for every channel value in 0..255.
MaxExp == 2

Pow2(e) == IF e = 0 THEN 1 ELSE IF e = 1 THEN 2 ELSE IF e = 2 THEN 4 ELSE 8

Ratios ==
    UNION { { <<n, Pow2(e)>> : n \in -2 * Pow2(e) .. 3 * Pow2(e) } : e \in 0 .. MaxExp }
    \cup { <<3, 10>>, <<2, 10>> }
    \cup { <<i, 19>> : i \in 0 .. 19 }

InitInterp ==
    /\ color1 \in ScriptColors
    /\ color2 \in ScriptColors
    /\ ratio \in Ratios
    /\ icResult = <<>>
    /\ icPc = "call"
    /\ GradIdle /\ RRectIdle /\ RenderIdle /\ MainIdle

InterpolateColor ==
    /\ icPc = "call"
    /\ icResult' = interpolate_color(color1, color2, ratio)
    /\ icPc' = "ret"
    /\ UNCHANGED << color1, color2, ratio >>
    /\ UNCHANGED << gradVars, rrectVars, renderVars, mainVars >>

NextInterp == InterpolateColor

SpecInterp == InitInterp /\ [][NextInterp]_vars


(***************************************************************************)
(* create_radial_gradient                                                  *)
(*                                                                         *)
(* dist / max_dist is sqrt(d2) / (sqrt(2) * h) with d2 the squared         *)
(* distance and h = size // 2; as a real number its square is d2 / (2 h^2).*)
(* A ratio is kept as [num, den, short]: the real sqrt(num / den) less     *)
(* short * 2^-53.  In IEEE-754 double arithmetic the corner ratio          *)
(* sqrt(2 h^2) / (sqrt(2) * h) is not always 1.0: CornerRatioShort is the  *)
(* number of units of 2^-53 by which line 41 falls short of 1.0 there.     *)
(* For sizes up to 7 the double result of lines 44-46 equals the exact     *)
(* truncation at every other pixel, for all channel values in 0..255.      *)
(***************************************************************************)
MaxSize == 6

Dist2(x, y, sz) == (x - sz \div 2) * (x - sz \div 2) + (y - sz \div 2) * (y - sz \div 2)

MaxDist2(sz) == 2 * (sz \div 2) * (sz \div 2)

\* sqrt(2.0 * h * h) / (sqrt(2.0) * h) in doubles is 1 - 2^-52 for h = 3
\* and h = 6, and exactly 1.0 for h = 1, 2, 4, 5 and for h = 512.
CornerRatioShort(h) == IF h \in {3, 6} THEN 2 ELSE 0

\* ratio = min(dist / max_dist, 1.0)
GradientRatio(x, y, sz) ==
    [ num   |-> Min(Dist2(x, y, sz), MaxDist2(sz)),
      den   |-> MaxDist2(sz),
      short |-> IF Dist2(x, y, sz) = MaxDist2(sz)
                THEN CornerRatioShort(sz \div 2) ELSE 0 ]

\* Whether ratio a is at most ratio b.
RatioLeq(a, b) ==
    \/ a.num * b.den < b.num * a.den
    \/ a.num * b.den = b.num * a.den /\ a.short >= b.short

IsPow2(n) == n \in {1, 2, 4, 8, 16, 32, 64, 128, 256}

\* The least power of two above n, for n in 1..255.
NextPow2(n) == CHOOSE p \in {2, 4, 8, 16, 32, 64, 128, 256} : p > n /\ p <= 2 * n

\* n / d rounded to the nearest integer, ties to even.
RoundHalfEven(n, d) ==
    LET q == n \div d
        r == n % d
    IN  IF 2 * r < d THEN q
        ELSE IF 2 * r > d THEN q + 1
        ELSE IF q % 2 = 0 THEN q ELSE q + 1

\* The spacing of the doubles just below the integer n, in units of 2^-53.
SpacingBelow(n) == IF IsPow2(n) THEN n ELSE NextPow2(n)

\* int(c0 + (c1 - c0) * ratio) for the double ratio = 1 - short * 2^-53:
\* the product falls short of c1 - c0 by q units once rounded, and the sum
\* rounds back up to c1 unless q exceeds half the spacing below c1.
ShortOfEdge(c0, c1, short) ==
    IF c1 - c0 <= 0 THEN c1
    ELSE LET D == c1 - c0
             q == IF IsPow2(D) THEN short * D
                  ELSE RoundHalfEven(D * short, NextPow2(D)) * NextPow2(D)
         IN  IF 2 * q > SpacingBelow(c1) THEN c1 - 1 ELSE c1

\* int(c0 + (c1 - c0) * ratio): the value is never negative, so int() is
\* the floor; k is found by comparing squares.
GradientChannel(c0, c1, rt) ==
    IF rt.num = rt.den
    THEN IF rt.short = 0 THEN c1 ELSE ShortOfEdge(c0, c1, rt.short)
    ELSE LET D  == c1 - c0
             t  == D * D * rt.num
         IN  IF D >= 0
             THEN CHOOSE k \in c0 .. c1 :
                    /\ (k - c0) * (k - c0) * rt.den <= t
                    /\ (k + 1 - c0) * (k + 1 - c0) * rt.den > t
             ELSE CHOOSE k \in c1 .. c0 :
                    /\ (c0 - k) * (c0 - k) * rt.den >= t
                    /\ k = c0 \/ (c0 - k - 1) * (c0 - k - 1) * rt.den < t

GradientColor(c0, c1, rt) ==
    << GradientChannel(c0[1], c1[1], rt),
       GradientChannel(c0[2], c1[2], rt),
       GradientChannel(c0[3], c1[3], rt) >>

\* The colour pairs the script passes, in both directions.
GradientColors ==
    { COLORS.card, COLORS.background, dark_center, dark_edge,
      tinted_center, tinted_edge }

Coords(sz) == (0 .. sz - 1) \X (0 .. sz - 1)

InitGradient ==
    /\ size \in 1 .. MaxSize
    /\ center_color \in GradientColors
    /\ edge_color \in GradientColors
    /\ pixels = [ c \in Coords(size) |-> center_color ]
    /\ gx = 0 /\ gy = 0
    /\ gPc = "loop"
    /\ InterpIdle /\ RRectIdle /\ RenderIdle /\ MainIdle

\* One iteration of the inner loop (lines 38-48); the last one returns.
GradientPixel ==
    /\ gPc = "loop"
    /\ MaxDist2(size) > 0
    /\ pixels' = [ pixels EXCEPT ![<<gx, gy>>] =
                     GradientColor(center_color, edge_color,
                                   GradientRatio(gx, gy, size)) ]
    /\ IF gx + 1 < size
       THEN gx' = gx + 1 /\ gy' = gy /\ gPc' = "loop"
       ELSE /\ gx' = 0
            /\ gy' = gy + 1
            /\ gPc' = IF gy + 1 < size THEN "loop" ELSE "ret"
    /\ UNCHANGED << size, center_color, edge_color >>
    /\ UNCHANGED << interpVars, rrectVars, renderVars, mainVars >>

\* size 1: max_dist is 0.0 and dist / max_dist raises ZeroDivisionError.
GradientDivideByZero ==
    /\ gPc = "loop"
    /\ MaxDist2(size) = 0
    /\ gPc' = "raised"
    /\ UNCHANGED << size, center_color, edge_color, pixels, gx, gy >>
    /\ UNCHANGED << interpVars, rrectVars, renderVars, mainVars >>

NextGradient == GradientPixel \/ GradientDivideByZero

SpecGradient == InitGradient /\ [][NextGradient]_vars

(***************************************************************************)
(* draw_rounded_rect                                                       *)
(*                                                                         *)
(* ImageDraw.rectangle fills every pixel of the box, both corners          *)
(* included; ImageDraw.ellipse fills the pixels lying in the ellipse       *)
(* inscribed in the box.                                                   *)
(***************************************************************************)
InRectangle(x, y, b) ==
    /\ b[1] <= x /\ x <= b[3]
    /\ b[2] <= y /\ y <= b[4]

InEllipse(x, y, b) ==
    /\ InRectangle(x, y, b)
    /\ LET w  == b[3] - b[1]
           h  == b[4] - b[2]
           dx == 2 * x - b[1] - b[3]
           dy == 2 * y - b[2] - b[4]
       IN  dx * dx * h * h + dy * dy * w * w <= w * w * h * h

InRoundedRect_square(x, y, b, r) ==
    \/ InRectangle(x, y, <<b[1], b[2], b[3], b[4]>>)
    \/ InRectangle(x, y, <<b[1], b[2] + r, b[3], b[4] - r>>)
    \/ InEllipse(x, y, <<b[1], b[2], b[1] + 2 * r, b[2] + 2 * r>>)
    \/ InEllipse(x, y, <<b[3] - 2 * r, b[2], b[3], b[2] + 2 * r>>)
    \/ InEllipse(x, y, <<b[1], b[4] - 2 * r, b[1] + 2 * r, b[4]>>)
    \/ InEllipse(x, y, <<b[3] - 2 * r, b[4] - 2 * r, b[3], b[4]>>)

\* The pixels draw_rounded_rect paints: two rectangles, then four ellipses,
\* all in the same fill.
InRoundedRect(x, y, b, r) ==
    \/ InRectangle(x, y, <<b[1] + r, b[2], b[3] - r, b[4]>>)
    \/ InRectangle(x, y, <<b[1], b[2] + r, b[3], b[4] - r>>)
    \/ InEllipse(x, y, <<b[1], b[2], b[1] + 2 * r, b[2] + 2 * r>>)
    \/ InEllipse(x, y, <<b[3] - 2 * r, b[2], b[3], b[2] + 2 * r>>)
    \/ InEllipse(x, y, <<b[1], b[4] - 2 * r, b[1] + 2 * r, b[4]>>)
    \/ InEllipse(x, y, <<b[3] - 2 * r, b[4] - 2 * r, b[3], b[4]>>)

\* The canvas is (0..CanvasMax) x (0..CanvasMax); the box lies in it and
\* the radius is at most half the smaller side.
CanvasMax == 7

BoxWidth(b)  == b[3] - b[1]
BoxHeight(b) == b[4] - b[2]

InitRRect ==
    /\ canvas = [ c \in (0 .. CanvasMax) \X (0 .. CanvasMax) |-> COLORS.background ]
    /\ bbox \in { b \in (0 .. CanvasMax) \X (0 .. CanvasMax)
                        \X (0 .. CanvasMax) \X (0 .. CanvasMax) :
                  b[1] < b[3] /\ b[2] < b[4] }
    /\ radius \in 0 .. CanvasMax
    /\ 2 * radius <= Min(BoxWidth(bbox), BoxHeight(bbox))
    /\ fill \in { COLORS.primary, COLORS.accent }
    /\ rrPc = "call"
    /\ InterpIdle /\ GradIdle /\ RenderIdle /\ MainIdle

DrawRoundedRect ==
    /\ rrPc = "call"
    /\ canvas' = [ c \in DOMAIN canvas |->
                     IF InRoundedRect(c[1], c[2], bbox, radius)
                     THEN fill ELSE canvas[c] ]
    /\ rrPc' = "ret"
    /\ UNCHANGED << bbox, radius, fill >>
    /\ UNCHANGED << interpVars, gradVars, renderVars, mainVars >>

NextRRect == DrawRoundedRect

SpecRRect == InitRRect /\ [][NextRRect]_vars

(***************************************************************************)
(* draw_dumbbell and the three variant generators                          *)
(*                                                                         *)
(* No drawing call reads the image, so the colour of a pixel after each    *)
(* step depends on that pixel alone: the specification follows one pixel   *)
(* (px, py) of the 1024 x 1024 image through create_radial_gradient and    *)
(* every step of draw_dumbbell, for each pixel of Probes.                  *)
(***************************************************************************)
bar_height    == 60
bar_width     == 400
weight_width  == 120
weight_height == 280
weight_radius == 30
inner_margin  == 20
bar_segments  == 20

bar_left == CENTER - bar_width \div 2
bar_top  == CENTER - bar_height \div 2

left_weight_left  == bar_left - 20
left_weight_right == left_weight_left + weight_width
weight_top_whole  == CENTER - weight_height
weight_top        == CENTER - weight_height \div 2
weight_bottom     == CENTER + weight_height \div 2

right_weight_right == CENTER + bar_width \div 2 + 20
right_weight_left  == right_weight_right - weight_width

\* bar_width / bar_segments is the float 20.0: the division is exact and
\* every segment coordinate is a whole number.
segment_width == bar_width \div bar_segments

seg_left(i)  == bar_left + i * segment_width
seg_right(i) == bar_left + (i + 1) * segment_width + 1

SegRatio_off_by_one(i) == <<i, bar_segments>>

\* ratio = i / (bar_segments - 1)
SegRatio(i) == <<i, bar_segments - 1>>

LeftPlateBox  == <<left_weight_left, weight_top, left_weight_right, weight_bottom>>
LeftInsetBox  == <<left_weight_left + inner_margin, weight_top + inner_margin,
                   left_weight_right - inner_margin, weight_bottom - inner_margin>>
RightPlateBox == <<right_weight_left, weight_top, right_weight_right, weight_bottom>>
RightInsetBox == <<right_weight_left + inner_margin, weight_top + inner_margin,
                   right_weight_right - inner_margin, weight_bottom - inner_margin>>
SegBox(i)     == <<seg_left(i), bar_top, seg_right(i), bar_top + bar_height>>

Variants == { "main", "dark", "tinted" }

\* The arguments each generate_*_icon passes.
BgCenter(v) == IF v = "main" THEN COLORS.card
               ELSE IF v = "dark" THEN dark_center ELSE tinted_center
BgEdge(v)   == IF v = "main" THEN COLORS.background
               ELSE IF v = "dark" THEN dark_edge ELSE tinted_edge
Primary(v)  == IF v = "main" THEN COLORS.primary
               ELSE IF v = "dark" THEN COLORS.primary_light ELSE tinted_primary
Accent(v)   == IF v = "main" THEN COLORS.accent
               ELSE IF v = "dark" THEN COLORS.accent ELSE tinted_accent

Background(v, x, y) == GradientColor(BgCenter(v), BgEdge(v), GradientRatio(x, y, SIZE))

LeftInsetColor(v)  == interpolate_color(Primary(v), COLORS.primary_light, <<3, 10>>)
RightInsetColor(v) == interpolate_color(Accent(v), COLORS.white, <<2, 10>>)
SegColor(v, i)     == interpolate_color(Primary(v), Accent(v), SegRatio(i))

\* The drawing steps of draw_dumbbell in program order: 1 left plate,
\* 2 left inset, 3..22 bar segments 0..19, 23 right plate, 24 right inset.
Steps == 1 .. bar_segments + 4

StepCovers(s, x, y) ==
    IF s = 1 THEN InRoundedRect(x, y, LeftPlateBox, weight_radius)
    ELSE IF s = 2 THEN InRoundedRect(x, y, LeftInsetBox, weight_radius - 10)
    ELSE IF s <= bar_segments + 2 THEN InRectangle(x, y, SegBox(s - 3))
    ELSE IF s = bar_segments + 3 THEN InRoundedRect(x, y, RightPlateBox, weight_radius)
    ELSE InRoundedRect(x, y, RightInsetBox, weight_radius - 10)

StepFill(s, v) ==
    IF s = 1 THEN Primary(v)
    ELSE IF s = 2 THEN LeftInsetColor(v)
    ELSE IF s <= bar_segments + 2 THEN SegColor(v, s - 3)
    ELSE IF s = bar_segments + 3 THEN Accent(v)
    ELSE RightInsetColor(v)

\* The followed pixels: every column from two left of the glyph to two
\* right of it, in every row of the plates' upper corners and in every
\* other row at which a shape starts or ends and its two neighbours; and,
\* outside the glyph, the image border and a grid of ProbeStride.
ProbeStride == 128

Near(S) == { e + d : e \in S, d \in -1 .. 1 }

Grid == { k * ProbeStride : k \in 0 .. (SIZE - 1) \div ProbeStride }

ProbeXs ==
    { x \in (left_weight_left - 2 .. right_weight_right + 2)
           \cup Grid \cup { 0, SIZE - 1 } : 0 <= x /\ x < SIZE }

ProbeYs ==
    { y \in (weight_top - 2 .. weight_top + 2 * inner_margin + 2)
           \cup Near({ bar_top, CENTER, bar_top + bar_height,
                       weight_bottom - 2 * inner_margin,
                       weight_bottom - weight_radius,
                       weight_bottom - inner_margin, weight_bottom })
           \cup Grid \cup { 0, SIZE - 1 } : 0 <= y /\ y < SIZE }

InitRender ==
    /\ variant \in Variants
    /\ px \in ProbeXs
    /\ py \in ProbeYs
    /\ pixel = BgCenter(variant)
    /\ rPc = "gradient"
    /\ seg = 0
    /\ InterpIdle /\ GradIdle /\ RRectIdle /\ MainIdle

\* create_radial_gradient(SIZE, ...) as called by the generator.
CreateBackground ==
    /\ rPc = "gradient"
    /\ pixel' = Background(variant, px, py)
    /\ rPc' = "left_plate"
    /\ UNCHANGED << variant, px, py, seg >>
    /\ UNCHANGED << interpVars, gradVars, rrectVars, mainVars >>

DrawLeftPlate ==
    /\ rPc = "left_plate"
    /\ pixel' = IF InRoundedRect(px, py, LeftPlateBox, weight_radius)
                THEN Primary(variant) ELSE pixel
    /\ rPc' = "left_inset"
    /\ UNCHANGED << variant, px, py, seg >>
    /\ UNCHANGED << interpVars, gradVars, rrectVars, mainVars >>

DrawLeftInset ==
    /\ rPc = "left_inset"
    /\ pixel' = IF InRoundedRect(px, py, LeftInsetBox, weight_radius - 10)
                THEN LeftInsetColor(variant) ELSE pixel
    /\ rPc' = "bar"
    /\ UNCHANGED << variant, px, py, seg >>
    /\ UNCHANGED << interpVars, gradVars, rrectVars, mainVars >>

DrawBarSegment_under ==
    /\ rPc = "bar"
    /\ pixel' = IF /\ InRectangle(px, py, SegBox(seg))
                   /\ pixel = Background(variant, px, py)
                THEN SegColor(variant, seg) ELSE pixel
    /\ seg' = seg + 1
    /\ rPc' = IF seg + 1 < bar_segments THEN "bar" ELSE "right_plate"
    /\ UNCHANGED << variant, px, py >>
    /\ UNCHANGED << interpVars, gradVars, rrectVars, mainVars >>

\* One iteration of the loop of lines 119-124.
DrawBarSegment ==
    /\ rPc = "bar"
    /\ pixel' = IF InRectangle(px, py, SegBox(seg))
                THEN SegColor(variant, seg) ELSE pixel
    /\ seg' = seg + 1
    /\ rPc' = IF seg + 1 < bar_segments THEN "bar" ELSE "right_plate"
    /\ UNCHANGED << variant, px, py >>
    /\ UNCHANGED << interpVars, gradVars, rrectVars, mainVars >>

DrawRightPlate ==
    /\ rPc = "right_plate"
    /\ pixel' = IF InRoundedRect(px, py, RightPlateBox, weight_radius)
                THEN Accent(variant) ELSE pixel
    /\ rPc' = "right_inset"
    /\ UNCHANGED << variant, px, py, seg >>
    /\ UNCHANGED << interpVars, gradVars, rrectVars, mainVars >>

\* The last step; draw_dumbbell and the generator return the image.
DrawRightInset ==
    /\ rPc = "right_inset"
    /\ pixel' = IF InRoundedRect(px, py, RightInsetBox, weight_radius - 10)
                THEN RightInsetColor(variant) ELSE pixel
    /\ rPc' = "done"
    /\ UNCHANGED << variant, px, py, seg >>
    /\ UNCHANGED << interpVars, gradVars, rrectVars, mainVars >>

NextRender ==
    \/ CreateBackground
    \/ DrawLeftPlate
    \/ DrawLeftInset
    \/ DrawBarSegment
    \/ DrawRightPlate
    \/ DrawRightInset

SpecRender == InitRender /\ [][NextRender]_vars

(***************************************************************************)
(* main                                                                    *)
(*                                                                         *)
(* The output directory holds the three icons and may hold other files     *)
(* (an asset catalogue has a Contents.json).  A file is Absent, Old (a     *)
(* complete file from before the run), Truncated, or the image saved to    *)
(* it.  os.makedirs and Image.save either succeed or raise; a save that    *)
(* raises before the file is opened leaves it as it was, one that raises   *)
(* later leaves it truncated.  Nothing catches the exception.              *)
(***************************************************************************)
IconName_same(k) == "AppIcon.png"

IconName(k) ==
    IF k = 1 THEN "AppIcon.png"
    ELSE IF k = 2 THEN "AppIcon-Dark.png" ELSE "AppIcon-Tinted.png"

VariantOf(k) == IF k = 1 THEN "main" ELSE IF k = 2 THEN "dark" ELSE "tinted"

GeneratingLine(k) ==
    IF k = 1 THEN "Generating main icon..."
    ELSE IF k = 2 THEN "Generating dark mode icon..." ELSE "Generating tinted icon..."

SavedLine(k) ==
    IF k = 1 THEN "  Saved AppIcon.png"
    ELSE IF k = 2 THEN "  Saved AppIcon-Dark.png" ELSE "  Saved AppIcon-Tinted.png"

FileNames == { "AppIcon.png", "AppIcon-Dark.png", "AppIcon-Tinted.png", "Contents.json" }

File(kind, v, w, h) == [ kind |-> kind, variant |-> v, width |-> w, height |-> h ]

Absent    == File("absent", "none", 0, 0)
Old       == File("old", "none", 0, 0)
Truncated == File("truncated", "none", 0, 0)
NoImage   == File("none", "none", 0, 0)

\* generate_*_icon returns the image create_radial_gradient(SIZE, ...) made.
GeneratedImage(k) == File("png", VariantOf(k), SIZE, SIZE)

InitMain ==
    /\ mPc = <<"start", 0>>
    /\ dirExists \in BOOLEAN
    /\ files \in [ FileNames -> { Absent, Old } ]
    /\ dirExists = FALSE => \A f \in FileNames : files[f] = Absent
    /\ files0 = files
    /\ out = <<>>
    /\ image = NoImage
    /\ InterpIdle /\ GradIdle /\ RRectIdle /\ RenderIdle

\* Lines 178-182.
PrintOutputDir ==
    /\ mPc = <<"start", 0>>
    /\ out' = Append(out, "Output directory")
    /\ mPc' = <<"makedirs", 0>>
    /\ UNCHANGED << dirExists, files, image, files0 >>
    /\ UNCHANGED << interpVars, gradVars, rrectVars, renderVars >>

\* os.makedirs(output_dir, exist_ok=True) returns.
MakeDirs ==
    /\ mPc = <<"makedirs", 0>>
    /\ dirExists' = TRUE
    /\ mPc' = <<"generate", 1>>
    /\ UNCHANGED << files, out, image, files0 >>
    /\ UNCHANGED << interpVars, gradVars, rrectVars, renderVars >>

\* os.makedirs raises (the directory is missing and cannot be created).
MakeDirsRaises ==
    /\ mPc = <<"makedirs", 0>>
    /\ ~dirExists
    /\ mPc' = <<"raised", 0>>
    /\ UNCHANGED << dirExists, files, out, image, files0 >>
    /\ UNCHANGED << interpVars, gradVars, rrectVars, renderVars >>

\* print("Generating ..."); icon = generate_*_icon()
GenerateIcon ==
    /\ mPc[1] = "generate"
    /\ out' = Append(out, GeneratingLine(mPc[2]))
    /\ image' = GeneratedImage(mPc[2])
    /\ mPc' = <<"save", mPc[2]>>
    /\ UNCHANGED << dirExists, files, files0 >>
    /\ UNCHANGED << interpVars, gradVars, rrectVars, renderVars >>

SaveIconRaises_swallowed ==
    /\ mPc[1] = "save"
    /\ \E left \in { files[IconName(mPc[2])], Truncated } :
          files' = [ files EXCEPT ![IconName(mPc[2])] = left ]
    /\ mPc' = IF mPc[2] < 3 THEN <<"generate", mPc[2] + 1>> ELSE <<"summary", 0>>
    /\ UNCHANGED << dirExists, out, image, files0 >>
    /\ UNCHANGED << interpVars, gradVars, rrectVars, renderVars >>

\* icon.save(path, 'PNG') returns; print("  Saved ...")
SaveIcon ==
    /\ mPc[1] = "save"
    /\ files' = [ files EXCEPT ![IconName(mPc[2])] = image ]
    /\ out' = Append(out, SavedLine(mPc[2]))
    /\ mPc' = IF mPc[2] < 3 THEN <<"generate", mPc[2] + 1>> ELSE <<"summary", 0>>
    /\ UNCHANGED << dirExists, image, files0 >>
    /\ UNCHANGED << interpVars, gradVars, rrectVars, renderVars >>

\* icon.save raises; the exception leaves main.
SaveIconRaises ==
    /\ mPc[1] = "save"
    /\ \E left \in { files[IconName(mPc[2])], Truncated } :
          files' = [ files EXCEPT ![IconName(mPc[2])] = left ]
    /\ mPc' = <<"raised", mPc[2]>>
    /\ UNCHANGED << dirExists, out, image, files0 >>
    /\ UNCHANGED << interpVars, gradVars, rrectVars, renderVars >>

\* Lines 203-204, and main returns.
PrintSummary ==
    /\ mPc = <<"summary", 0>>
    /\ out' = out \o << "All icons generated successfully!", "Icons saved to" >>
    /\ mPc' = <<"done", 0>>
    /\ UNCHANGED << dirExists, files, image, files0 >>
    /\ UNCHANGED << interpVars, gradVars, rrectVars, renderVars >>

Next ==
    \/ PrintOutputDir
    \/ MakeDirs
    \/ MakeDirsRaises
    \/ GenerateIcon
    \/ SaveIcon
    \/ SaveIconRaises
    \/ PrintSummary

Init == InitMain

Spec == Init /\ [][Next]_vars

\* main is one sequential thread: while a statement remains, one runs.
FairSpec == Spec /\ WF_vars(Next)

(***************************************************************************)
(* Claims about interpolate_color (SpecInterp).                            *)
(***************************************************************************)
Between(v, a, b) == Min(a, b) <= v /\ v <= Max(a, b)

RatioInUnit == 0 <= ratio[1] /\ ratio[1] <= ratio[2]

\* C3: for a ratio in [0, 1] every channel of the result lies between the
\* corresponding channels of the two colours, inclusive (hence in 0..255);
\* ratio 0 returns exactly color1 and ratio 1 exactly color2.
C3_InterpolationBounded ==
    (icPc = "ret" /\ RatioInUnit) =>
        /\ \A i \in 1 .. 3 :
              /\ Between(icResult[i], color1[i], color2[i])
              /\ icResult[i] \in 0 .. 255
        /\ (ratio[1] = 0 => icResult = color1)
        /\ (ratio[1] = ratio[2] => icResult = color2)

\* A call with a ratio strictly inside (0, 1) whose result is neither colour.
C3_Witness ==
    /\ icPc = "ret"
    /\ 0 < ratio[1] /\ ratio[1] < ratio[2]
    /\ \A i \in 1 .. 3 : icResult[i] # color1[i] /\ icResult[i] # color2[i]

\* C4 as stated: for any ratio, in or out of [0, 1], every channel is
\* floor(c1 + (c2 - c1) * r).
C4_ChannelIsFloor ==
    icPc = "ret" =>
        \A i \in 1 .. 3 :
            LET num == InterpNum(color1, color2, ratio, i)
                k   == icResult[i]
            IN  k * ratio[2] <= num /\ num < (k + 1) * ratio[2]

\* C4 as amended: for any ratio, in or out of [0, 1], every channel is
\* c1 + (c2 - c1) * r rounded toward zero: the floor when that value is not
\* negative (so for every r in [0, 1]), the ceiling when it is negative.
C4_ChannelIsTruncation ==
    icPc = "ret" =>
        \A i \in 1 .. 3 :
            LET num == InterpNum(color1, color2, ratio, i)
                k   == icResult[i]
            IN  IF num >= 0
                THEN k * ratio[2] <= num /\ num < (k + 1) * ratio[2]
                ELSE (k - 1) * ratio[2] < num /\ num <= k * ratio[2]

\* A call with a ratio outside [0, 1] that drives a channel to a negative
\* value that is not an integer.
C4_Witness ==
    /\ icPc = "ret"
    /\ ~RatioInUnit
    /\ \E i \in 1 .. 3 :
          LET num == InterpNum(color1, color2, ratio, i)
          IN  num < 0 /\ num % ratio[2] # 0 /\ icResult[i] < 0


(***************************************************************************)
(* Claims about create_radial_gradient (SpecGradient).                     *)
(***************************************************************************)
\* C5: in the returned image the centre pixel (S//2, S//2) is the centre
\* colour, every pixel at or beyond the corner distance sqrt(2) * (S//2) is
\* the edge colour, and of any two pixels the farther one has the greater
\* or equal interpolation ratio.
C5_GradientEndpointsAndMonotone ==
    gPc = "ret" =>
        /\ pixels[<<size \div 2, size \div 2>>] = center_color
        /\ \A c \in Coords(size) :
              Dist2(c[1], c[2], size) >= MaxDist2(size) => pixels[c] = edge_color
        /\ \A c \in Coords(size), e \in Coords(size) :
              Dist2(c[1], c[2], size) <= Dist2(e[1], e[2], size) =>
                  RatioLeq(GradientRatio(c[1], c[2], size),
                           GradientRatio(e[1], e[2], size))


(***************************************************************************)
(* Claims about draw_rounded_rect (SpecRRect).                             *)
(***************************************************************************)
BoxCorners(b) == { <<b[1], b[2]>>, <<b[3], b[2]>>, <<b[1], b[4]>>, <<b[3], b[4]>> }

\* The pixels at the midpoints of the four edges (both neighbours of a
\* midpoint that falls between two pixels).
EdgeMidpoints(b) ==
    LET xs == { (b[1] + b[3]) \div 2, (b[1] + b[3] + 1) \div 2 }
        ys == { (b[2] + b[4]) \div 2, (b[2] + b[4] + 1) \div 2 }
    IN  (xs \X { b[2], b[4] }) \cup ({ b[1], b[3] } \X ys)

CornersOpenMidpointsFilled ==
    /\ \A c \in BoxCorners(bbox) : canvas[c] # fill
    /\ \A c \in EdgeMidpoints(bbox) : canvas[c] = fill

\* C2 as stated: for every box and every radius R with 2R < min(W, H), after
\* the call the four corner pixels are not the fill colour and the four
\* edge midpoints are.
C2_AnyRadius ==
    (rrPc = "ret" /\ 2 * radius < Min(BoxWidth(bbox), BoxHeight(bbox))) =>
        CornersOpenMidpointsFilled

\* C2 as amended: the same for every radius R >= 1 with 2R < min(W, H).
C2_PositiveRadius ==
    (/\ rrPc = "ret"
     /\ radius >= 1
     /\ 2 * radius < Min(BoxWidth(bbox), BoxHeight(bbox))) =>
        CornersOpenMidpointsFilled

\* A rounded rectangle of radius 2 has been drawn, its corners left in the
\* background colour.
C2_Witness ==
    /\ rrPc = "ret"
    /\ radius = 2
    /\ 2 * radius < Min(BoxWidth(bbox), BoxHeight(bbox))
    /\ canvas[<<bbox[1], bbox[2]>>] = COLORS.background
    /\ canvas[<<bbox[1] + radius, bbox[2]>>] = fill


(***************************************************************************)
(* Claims about draw_dumbbell and the variants (SpecRender).               *)
(***************************************************************************)
\* Rounding tolerance: channels at most 1 apart.
Grayscale(c) ==
    /\ Abs(c[1] - c[2]) <= 1
    /\ Abs(c[2] - c[3]) <= 1
    /\ Abs(c[1] - c[3]) <= 1

\* C1: in the tinted variant every pixel written by any step of the render,
\* the two plate inset fills included, has equal R, G and B values up to
\* rounding tolerance.
C1_TintedIsGrayscale ==
    variant = "tinted" => Grayscale(pixel)

SetMax(S) == CHOOSE m \in S : \A n \in S : n <= m

Covering(x, y) == { s \in Steps : StepCovers(s, x, y) }

InBar(x, y) == \E i \in 0 .. bar_segments - 1 : InRectangle(x, y, SegBox(i))

\* C8: after draw_dumbbell returns, every pixel has the fill of the last
\* step (left plate, left inset, bar segments 0..19, right plate, right
\* inset) whose shape covers it, or its background colour if none does; so
\* the bar shows over the left plate and inset, and the right plate and
\* inset show over the bar.
C8_PaintersAlgorithm ==
    rPc = "done" =>
        /\ pixel = IF Covering(px, py) = {}
                   THEN Background(variant, px, py)
                   ELSE StepFill(SetMax(Covering(px, py)), variant)
        /\ (InBar(px, py) /\ (StepCovers(1, px, py) \/ StepCovers(2, px, py))) =>
               \E i \in 0 .. bar_segments - 1 :
                   /\ InRectangle(px, py, SegBox(i))
                   /\ pixel = interpolate_color(Primary(variant), Accent(variant),
                                                <<i, 19>>)
        /\ (InBar(px, py) /\ StepCovers(bar_segments + 3, px, py)) =>
               pixel \in { Accent(variant),
                           interpolate_color(Accent(variant), COLORS.white, <<2, 10>>) }

\* A pixel of the left inset under bar segment 1 shows the bar.
C8_Witness ==
    /\ rPc = "done"
    /\ StepCovers(2, px, py)
    /\ StepCovers(4, px, py)
    /\ ~StepCovers(5, px, py)
    /\ pixel = SegColor(variant, 1)
    /\ pixel # LeftInsetColor(variant)
    /\ pixel # Primary(variant)

\* C9: the bar is 20 segments of equal width bar_width / 20; segment i is
\* filled with interpolate_color(primary, accent, i / 19), so segment 0 is
\* exactly primary and segment 19 exactly accent; each segment's rectangle
\* ends 1 past the left edge of the next; once all 20 are drawn every column
\* from bar_left to bar_left + bar_width in the bar's rows is covered, and
\* shows the colour of the highest-indexed segment covering it.
C9_BarSegments ==
    /\ \A i \in 0 .. 18 :
          /\ seg_left(i + 1) - seg_left(i) = 20
          /\ seg_right(i) = seg_left(i + 1) + 1
    /\ seg_left(0) = bar_left
    /\ seg_left(19) + 20 = bar_left + bar_width
    /\ (rPc = "bar" /\ seg >= 1 /\ InRectangle(px, py, SegBox(seg - 1))) =>
           pixel = interpolate_color(Primary(variant), Accent(variant),
                                     <<seg - 1, 19>>)
    /\ (rPc = "bar" /\ seg = 1 /\ InRectangle(px, py, SegBox(0))) =>
           pixel = Primary(variant)
    /\ (/\ rPc = "right_plate"
        /\ bar_left <= px /\ px <= bar_left + bar_width
        /\ bar_top <= py /\ py <= bar_top + bar_height) =>
           LET over == { i \in 0 .. 19 : InRectangle(px, py, SegBox(i)) }
           IN  /\ over # {}
               /\ pixel = interpolate_color(Primary(variant), Accent(variant),
                                            <<SetMax(over), 19>>)
               /\ (19 \in over => pixel = Accent(variant))

\* All segments are drawn and the pixel lies where segments 9 and 10
\* overlap: it shows segment 10.
C9_Witness ==
    /\ rPc = "right_plate"
    /\ InRectangle(px, py, SegBox(9))
    /\ InRectangle(px, py, SegBox(10))
    /\ pixel = interpolate_color(Primary(variant), Accent(variant), <<10, 19>>)
    /\ pixel # interpolate_color(Primary(variant), Accent(variant), <<9, 19>>)

StepBox(s) ==
    IF s = 1 THEN LeftPlateBox
    ELSE IF s = 2 THEN LeftInsetBox
    ELSE IF s <= bar_segments + 2 THEN SegBox(s - 3)
    ELSE IF s = bar_segments + 3 THEN RightPlateBox
    ELSE RightInsetBox

InGlyphRect(x, y) == 292 <= x /\ x <= 732 /\ 372 <= y /\ y <= 652

\* C10: draw_dumbbell changes only pixels in columns 292..732 and rows
\* 372..652; every pixel outside keeps its background gradient colour, and
\* no shape, the last segment's overhang included, reaches outside that
\* rectangle or outside the canvas.
C10_Frame ==
    /\ (rPc # "gradient" /\ ~InGlyphRect(px, py)) =>
           pixel = Background(variant, px, py)
    /\ (rPc = "done" /\ ~InGlyphRect(px, py)) =>
           \A s \in Steps : ~StepCovers(s, px, py)
    /\ rPc = "done" =>
           /\ \A s \in Steps :
                 /\ InGlyphRect(StepBox(s)[1], StepBox(s)[2])
                 /\ InGlyphRect(StepBox(s)[3], StepBox(s)[4])
           /\ left_weight_left = 292 /\ right_weight_right = 732
           /\ weight_top = 372 /\ weight_bottom = 652
           /\ 0 <= 292 /\ 732 < SIZE /\ 0 <= 372 /\ 652 < SIZE

\* The dumbbell is drawn and a pixel one column right of the right plate
\* still has its gradient colour.
C10_Witness ==
    /\ rPc = "done"
    /\ px = right_weight_right + 1
    /\ py = CENTER
    /\ pixel = Background(variant, px, py)
    /\ pixel # BgCenter(variant)


(***************************************************************************)
(* Claims about main (Spec, FairSpec).                                     *)
(***************************************************************************)
StartedEmpty == \A f \in DOMAIN files0 : files0[f].kind = "absent"

IsImage1024(f) ==
    /\ f.kind = "png"
    /\ f.width = 1024
    /\ f.height = 1024

ThreeIconsOnly ==
    /\ dirExists
    /\ IsImage1024(files["AppIcon.png"]) /\ files["AppIcon.png"].variant = "main"
    /\ IsImage1024(files["AppIcon-Dark.png"]) /\ files["AppIcon-Dark.png"].variant = "dark"
    /\ IsImage1024(files["AppIcon-Tinted.png"])
    /\ files["AppIcon-Tinted.png"].variant = "tinted"
    /\ \A f \in DOMAIN files :
          f \notin { "AppIcon.png", "AppIcon-Dark.png", "AppIcon-Tinted.png" } =>
              files[f].kind = "absent"

\* C6: started on a missing or empty output directory, main ends, and when
\* it ends without a file system failure the directory exists and holds
\* exactly AppIcon.png, AppIcon-Dark.png and AppIcon-Tinted.png, each a
\* 1024 x 1024 image.
C6_ThreeIconsWritten ==
    /\ <>(mPc[1] \in { "done", "raised" })
    /\ []((mPc[1] = "done" /\ StartedEmpty) => ThreeIconsOnly)

\* main has returned after starting without an output directory.
C6_Witness ==
    /\ mPc[1] = "done"
    /\ StartedEmpty
    /\ dirExists
    /\ Len(out) = 9

FullLog ==
    << "Output directory",
       "Generating main icon...", "  Saved AppIcon.png",
       "Generating dark mode icon...", "  Saved AppIcon-Dark.png",
       "Generating tinted icon...", "  Saved AppIcon-Tinted.png",
       "All icons generated successfully!", "Icons saved to" >>

IconOrder == << "AppIcon.png", "AppIcon-Dark.png", "AppIcon-Tinted.png" >>

InLog(line) == \E i \in 1 .. Len(out) : out[i] = line

\* What C7 says of the state in which main has stopped on a failure, with
\* KthFile the states allowed for the file whose save failed.
StoppedAtFirstFailure(KthFile(_)) ==
    /\ Len(out) <= Len(FullLog)
    /\ \A i \in 1 .. Len(out) : out[i] = FullLog[i]
    /\ InLog("All icons generated successfully!") =>
           /\ mPc[1] = "done"
           /\ \A j \in 1 .. 3 : IsImage1024(files[IconOrder[j]])
    /\ mPc = <<"raised", 0>> =>
           /\ files = files0
           /\ out = << "Output directory" >>
    /\ (mPc[1] = "raised" /\ mPc[2] >= 1) =>
           LET k == mPc[2]
           IN  /\ \A j \in 1 .. k - 1 : IsImage1024(files[IconOrder[j]])
               /\ files[IconOrder[k]] \in KthFile(k)
               /\ \A j \in k + 1 .. 3 : files[IconOrder[j]] = files0[IconOrder[j]]
               /\ Len(out) = 2 * k
               /\ files["Contents.json"] = files0["Contents.json"]
    /\ mPc[1] = "raised" => ~ENABLED Next

AbsentOrTruncated(k) == { Absent, Truncated }

AbsentTruncatedOrAsBefore(k) == { Absent, Truncated, files0[IconOrder[k]] }

\* C7 as stated: main generates and saves main, dark, tinted in that order
\* and stops at the first failure; when the save of variant k fails the
\* earlier variants are complete files, the file of variant k is absent or
\* truncated and stays so, no later variant is generated or written and the
\* summary is not printed; when makedirs fails no file is written.
C7_FailedFileAbsentOrTruncated == StoppedAtFirstFailure(AbsentOrTruncated)

\* C7 as amended: the same, except that the file of variant k is absent,
\* truncated, or still the file that was at that path before the run.
C7_FailedFileNotCompleted == StoppedAtFirstFailure(AbsentTruncatedOrAsBefore)

\* The save of the dark icon failed part way: the main icon is complete,
\* the dark one truncated, the tinted one untouched.
C7_Witness ==
    /\ mPc = <<"raised", 2>>
    /\ IsImage1024(files["AppIcon.png"])
    /\ files["AppIcon-Dark.png"].kind = "truncated"
    /\ files["AppIcon-Tinted.png"] = files0["AppIcon-Tinted.png"]
    /\ Len(out) = 4

=============================================================================
